---- MODULE Spec2Model ----
(***************************************************************************)
(* Model of china_industry_valuation/assets/industry_pe_pb_sw.py:          *)
(*   - TushareAPI.call_with_retry, the rate-limited retrying client;       *)
(*   - calculate_percentile_rank, the mid-rank percentile of a value in a  *)
(*     series with missing entries;                                        *)
(*   - main, the per-industry loop that fetches and ranks every industry.  *)
(* and of run_analysis of run_valuation.py, which runs that main as a      *)
(* subprocess and looks for the CSV file it wrote.                         *)
(*                                                                         *)
(* Time is the value of time.time() counted in tenths of a second, so the  *)
(* 0.3 s request interval is 3 ticks.  Percentiles are counted in          *)
(* hundredths of a percent, the resolution round(percentile, 2) keeps, so  *)
(* 50.0 is 5000 and 16.67 is 1667.                                         *)
(***************************************************************************)
EXTENDS Integers, Sequences, FiniteSets, TLC

VARIABLES
    env,                \* what the surroundings of this run may do
    now,                \* time.time()
    last_request_time,  \* TushareAPI.last_request_time
    total_requests,     \* TushareAPI.total_requests
    cpc,                \* position inside call_with_retry
    max_retries,        \* the max_retries argument of the current call
    attempt,            \* the for loop's variable
    err,                \* error_msg of the exception being handled
    result,             \* what call_with_retry returned
    started_at,         \* time.time() when api_func was last entered
    failed_at,          \* time.time() when api_func last raised
    invocations,        \* api_func invocations made by the current call
    succeeded,          \* api_func returned normally in the current call
    entry,              \* <<last_request_time, total_requests>> at call entry
    successes,          \* api_func invocations that returned, all calls
    failures,           \* api_func invocations that raised, all calls
    calls,              \* calls of call_with_retry made so far
    mpc,                \* position inside the caller (main, or any caller)
    level,              \* args.level
    interval,           \* args.interval
    industry_df,        \* main's industry_df
    idx,                \* position of the per-industry loop
    fetched,            \* what get_sw_daily_data returned, per industry
    results,            \* main's results list
    output_file,        \* the rows of the CSV file main wrote, if any
    series,             \* calculate_percentile_rank's argument
    value,              \* calculate_percentile_rank's argument
    pct,                \* calculate_percentile_rank's return value
    ppc,                \* "input" before the function ran, "done" after
    script_present,     \* os.path.exists(script_path) in run_analysis
    old_files,          \* levels with a CSV file of an earlier run in output_dir
    returned            \* what run_analysis returned

\* The locals of one call of call_with_retry, and what is observed of it.
callVars == <<cpc, max_retries, attempt, err, result, started_at, failed_at,
              invocations, succeeded, entry>>
clientVars == <<env, now, last_request_time, total_requests, callVars, successes,
                failures, calls>>
mainVars == <<mpc, level, interval, industry_df, idx, fetched, results,
              output_file>>
pctVars == <<series, value, pct, ppc>>
runVars == <<script_present, old_files, returned>>
vars == <<clientVars, mainVars, pctVars, runVars>>

----------------------------------------------------------------------------
\* Bounds of the model.

\* Largest measured value of a series entry; entries are 1..MaxValue or NA.
MaxValue == 3
\* Longest series handed to calculate_percentile_rank.
MaxLen == 4
\* Most industries of the requested level that index_basic lists.
MaxIndustries == 2
\* Longest time (ticks) api_func takes, and longest time a sleep overruns.
MaxLag == 1
\* Longest time (ticks) a caller spends between two calls of the client.
MaxGap == 2
\* Most times api_func raises for a caller other than main.
MaxFailures == 2
\* Largest max_retries a caller other than main passes, and most calls it makes.
MaxRetries == 2
MaxCalls == 2

\* Program constants (ticks of 0.1 s).
REQUEST_INTERVAL == 3
RATE_LIMIT_WAIT == 650
RETRY_DELAY == 20
DEFAULT_MAX_RETRIES == 5
\* time.time() when the client is constructed: the epoch clock, far above
\* REQUEST_INTERVAL.
StartTime == 10

\* The absent values, kept apart from every number the model uses: a
\* missing series entry or query value (NaN: pd.isna is true of it), and
\* the None calculate_percentile_rank returns.
NA == 0
None == -1

----------------------------------------------------------------------------
\* calculate_percentile_rank

Values == 1..MaxValue
Entries == Values \cup {NA}

RECURSIVE dropna(_)
dropna(s) ==
    IF s = <<>> THEN <<>>
    ELSE IF Head(s) = NA THEN dropna(Tail(s))
         ELSE <<Head(s)>> \o dropna(Tail(s))

\* Comparisons of pandas: one with a missing operand is False.
lt(a, b) == a # NA /\ b # NA /\ a < b
eq(a, b) == a # NA /\ b # NA /\ a = b

\* count_below with <= for <: the ties are counted below as well.
count_at_most(clean, v) ==
    Cardinality({k \in 1..Len(clean) : lt(clean[k], v) \/ eq(clean[k], v)})

\* (clean_series < value).sum()
count_below(clean, v) == Cardinality({k \in 1..Len(clean) : lt(clean[k], v)})
\* (clean_series == value).sum()
count_equal(clean, v) == Cardinality({k \in 1..Len(clean) : eq(clean[k], v)})

\* round2 cutting the digits after the second instead of rounding.
round2_down(num, den) == (num * 10000) \div den

\* round(num / den * 100, 2) in hundredths: the nearest integer to
\* num * 10000 / den, an exact half going to the even neighbour.
round2(num, den) ==
    LET scaled == num * 10000
        q == scaled \div den
        r == scaled % den
    IN  IF 2 * r < den THEN q
        ELSE IF 2 * r > den THEN q + 1
        ELSE IF q % 2 = 0 THEN q ELSE q + 1

\* percentile_of with the ties at full weight.
percentile_of_full_ties(clean, v) ==
    round2(2 * count_below(clean, v) + 2 * count_equal(clean, v),
           2 * Len(clean))

\* percentile = (count_below + 0.5 * count_equal) / len(clean_series) * 100,
\* kept as the fraction (2 * count_below + count_equal) / (2 * len).
percentile_of(clean, v) ==
    round2(2 * count_below(clean, v) + count_equal(clean, v), 2 * Len(clean))

\* calculate_percentile_rank without the pd.isna(value) test.
rank_of_unchecked_value(s, v) ==
    IF Len(s) = 0 THEN None
    ELSE LET clean == dropna(s)
         IN  IF Len(clean) = 0 THEN None
             ELSE round2(2 * count_below(clean, v) + count_equal(clean, v),
                         2 * Len(clean))

calculate_percentile_rank(s, v) ==
    IF v = NA \/ Len(s) = 0 THEN None
    ELSE LET clean == dropna(s)
         IN  IF Len(clean) = 0 THEN None
             ELSE percentile_of(clean, v)

----------------------------------------------------------------------------
\* TushareAPI.call_with_retry

\* What call_with_retry hands back: None, or the DataFrame api_func returned.
NoResult == [none |-> TRUE, rows |-> <<>>]
Frame(rows) == [none |-> FALSE, rows |-> rows]

\* str(e) of the exceptions api_func raises: the two messages the handler
\* takes for a rate limit, and any other error.
Messages == {"minute_quota", "too_frequent", "timeout"}

\* "每分钟最多访问" in error_msg or "访问过于频繁" in error_msg
is_rate_limit(msg) == msg \in {"minute_quota", "too_frequent"}

\* A run with every wait and call taking its nominal time and api_func
\* failing as often as it likes, and a run with waits and calls that take
\* longer and a caller that pauses between its calls.
NominalEnv == [lag |-> 0, gap |-> 0,
               failures |-> DEFAULT_MAX_RETRIES * (MaxIndustries + 1)]
LaggingEnv == [lag |-> MaxLag, gap |-> MaxGap, failures |-> MaxFailures]

Lags == 0..env.lag
Gaps == 0..env.gap

\* time.sleep(secs) returns once at least secs have passed.
SleepTo(secs, lag) == now + secs + lag

\* throttle sleeping the time already elapsed, not the time that remains.
throttle_sleeps_elapsed(elapsed, lag) ==
    IF elapsed < REQUEST_INTERVAL THEN SleepTo(elapsed, lag) ELSE now

\* if elapsed < REQUEST_INTERVAL: time.sleep(REQUEST_INTERVAL - elapsed)
throttle(elapsed, lag) ==
    IF elapsed < REQUEST_INTERVAL
    THEN SleepTo(REQUEST_INTERVAL - elapsed, lag)
    ELSE now

\* backoff with the short delay after every error.
backoff_always_short(msg) == RETRY_DELAY

\* The pause of the except clause: RATE_LIMIT_WAIT for a rate limit, 2 s
\* for any other error.
backoff(msg) == IF is_rate_limit(msg) THEN RATE_LIMIT_WAIT ELSE RETRY_DELAY

\* for attempt in range(max_retries)
attempts_left(a, m) == a < m

\* Entry of call_with_retry with max_retries = m, part of the caller's step.
BeginCall(m) ==
    /\ cpc = "idle"
    /\ cpc' = "head"
    /\ max_retries' = m
    /\ attempt' = 0
    /\ err' = ""
    /\ invocations' = 0
    /\ succeeded' = FALSE
    /\ entry' = <<last_request_time, total_requests>>
    /\ calls' = calls + 1
    /\ UNCHANGED <<env, now, last_request_time, total_requests, result,
                   started_at, failed_at, successes, failures>>

\* The caller has the returned value; the locals of the call are gone.
EndCall ==
    /\ cpc = "ret"
    /\ cpc' = "idle"
    /\ max_retries' = 0
    /\ attempt' = 0
    /\ err' = ""
    /\ result' = NoResult
    /\ started_at' = 0
    /\ failed_at' = 0
    /\ invocations' = 0
    /\ succeeded' = FALSE
    /\ entry' = <<0, 0>>
    /\ UNCHANGED <<env, last_request_time, total_requests, successes,
                   failures, calls>>

\* The head of the try block: wait out the request interval, enter api_func.
Throttle ==
    /\ cpc = "head"
    /\ attempts_left(attempt, max_retries)
    /\ \E lag \in Lags :
          /\ now' = throttle(now - last_request_time, lag)
          /\ started_at' = now'
    /\ invocations' = invocations + 1
    /\ cpc' = "invoke"
    /\ UNCHANGED <<env, last_request_time, total_requests, max_retries,
                   attempt, err, result, failed_at, succeeded, entry,
                   successes, failures, calls>>
    /\ UNCHANGED <<mainVars, pctVars, runVars>>

\* The levels of --level.
Levels == {"L1", "L2", "L3"}

\* What pro.index_basic(market='SW') returns: n indices whose code and name
\* pass the filters of the requested level, and one index they exclude.
index_rows(n, lvl) ==
    [k \in 1..n |-> [ts_code |-> k, lvl |-> lvl]]
        \o <<[ts_code |-> n + 1, lvl |-> "other"]>>

IndexFrames == {<<>>} \cup {index_rows(n, level) : n \in 0..MaxIndustries}

\* What pro.sw_daily returns for one index: no row, one row without PE, and
\* rows out of date order.
DailyFrames ==
    { <<>>,
      <<[trade_date |-> 1, pe |-> NA, pb |-> 2]>>,
      <<[trade_date |-> 2, pe |-> 2, pb |-> 1],
        [trade_date |-> 3, pe |-> 1, pb |-> NA],
        [trade_date |-> 1, pe |-> 3, pb |-> 1]>> }

\* The DataFrames api_func can return to the caller that is waiting.
Responses == IF mpc = "list" THEN IndexFrames ELSE DailyFrames

\* on_success recording the time api_func was entered, not the time it
\* returned.
on_success_start_time(t, df) ==
    /\ last_request_time' = started_at
    /\ total_requests' = total_requests + 1
    /\ result' = Frame(df)
    /\ cpc' = "ret"

\* The body of the try block once api_func has returned at time t.
on_success(t, df) ==
    /\ last_request_time' = t
    /\ total_requests' = total_requests + 1
    /\ result' = Frame(df)
    /\ cpc' = "ret"

\* api_func(**kwargs) returns.
ApiReturn ==
    /\ cpc = "invoke"
    /\ \E lag \in Lags, df \in Responses :
          /\ now' = now + lag
          /\ on_success(now', df)
    /\ succeeded' = TRUE
    /\ successes' = successes + 1
    /\ UNCHANGED <<env, max_retries, attempt, err, started_at, failed_at,
                   invocations, entry, failures, calls>>
    /\ UNCHANGED <<mainVars, pctVars, runVars>>

\* on_error taking the time of the failure for the time of the last call.
on_error_stamps(t, msg) ==
    /\ err' = msg
    /\ failed_at' = t
    /\ cpc' = "except"
    /\ last_request_time' = t
    /\ UNCHANGED <<total_requests, result>>

\* What the except clause keeps of a caught exception raised at time t.
on_error(t, msg) ==
    /\ err' = msg
    /\ failed_at' = t
    /\ cpc' = "except"
    /\ UNCHANGED <<last_request_time, total_requests, result>>

\* api_func(**kwargs) raises an Exception; the except clause catches it.
ApiRaise ==
    /\ cpc = "invoke"
    /\ failures < env.failures
    /\ \E lag \in Lags, msg \in Messages :
          /\ now' = now + lag
          /\ on_error(now', msg)
    /\ failures' = failures + 1
    /\ UNCHANGED <<env, max_retries, attempt, started_at, invocations,
                   succeeded, entry, successes, calls>>
    /\ UNCHANGED <<mainVars, pctVars, runVars>>

\* after_except raising the last error of the final attempt to the caller.
after_except_reraises(msg) ==
    IF ~is_rate_limit(msg) /\ attempt + 1 >= max_retries
    THEN attempt' = attempt /\ cpc' = "raised"
    ELSE attempt' = attempt + 1 /\ cpc' = "head"

\* after_except with a rate limit not counted as an attempt.
after_except_free_rate_limit(msg) ==
    /\ attempt' = IF is_rate_limit(msg) THEN attempt ELSE attempt + 1
    /\ cpc' = "head"

\* Where the except clause leaves the call: both branches fall back to the
\* for loop, which takes the next value of attempt.
after_except(msg) ==
    /\ attempt' = attempt + 1
    /\ cpc' = "head"

\* The except clause: sleep RATE_LIMIT_WAIT and continue, or sleep 2 s.
Except ==
    /\ cpc = "except"
    /\ \E lag \in Lags : now' = SleepTo(backoff(err), lag)
    /\ after_except(err)
    /\ UNCHANGED <<env, last_request_time, total_requests, max_retries, err,
                   result, started_at, failed_at, invocations, succeeded,
                   entry, successes, failures, calls>>
    /\ UNCHANGED <<mainVars, pctVars, runVars>>

\* The for loop is exhausted: return None.
Exhausted ==
    /\ cpc = "head"
    /\ ~attempts_left(attempt, max_retries)
    /\ result' = NoResult
    /\ cpc' = "ret"
    /\ UNCHANGED <<env, now, last_request_time, total_requests, max_retries,
                   attempt, err, started_at, failed_at, invocations, succeeded,
                   entry, successes, failures, calls>>
    /\ UNCHANGED <<mainVars, pctVars, runVars>>

\* Any caller of the client: it calls with some max_retries ...
Call ==
    /\ mpc = "caller"
    /\ calls < MaxCalls
    /\ \E m \in 0..MaxRetries : BeginCall(m)
    /\ mpc' = "waiting"
    /\ UNCHANGED <<level, interval, industry_df, idx, fetched, results,
                   output_file>>
    /\ UNCHANGED <<pctVars, runVars>>

\* ... and goes on after the call has returned.
Return ==
    /\ mpc = "waiting"
    /\ EndCall
    /\ \E gap \in Gaps : now' = now + gap
    /\ mpc' = "caller"
    /\ UNCHANGED <<level, interval, industry_df, idx, fetched, results,
                   output_file>>
    /\ UNCHANGED <<pctVars, runVars>>

----------------------------------------------------------------------------
\* get_industry_list, get_sw_daily_data and main

\* The filters of one level: the code pattern, the name, the exclusions.
filter_level(rows, lvl) == SelectSeq(rows, LAMBDA r : r.lvl = lvl)

\* get_industry_list: None when index_basic gave nothing, else the indices
\* of the level.
get_industry_list(all_df, lvl) ==
    IF all_df.none \/ Len(all_df.rows) = 0 THEN NoResult
    ELSE Frame(filter_level(all_df.rows, lvl))

\* df is None or len(df) == 0
no_data(df) == df.none \/ Len(df.rows) = 0

RECURSIVE insert_desc(_, _)
insert_desc(sorted, r) ==
    IF sorted = <<>> THEN <<r>>
    ELSE IF Head(sorted).trade_date >= r.trade_date
         THEN <<Head(sorted)>> \o insert_desc(Tail(sorted), r)
         ELSE <<r>> \o sorted

\* df.sort_values('trade_date', ascending=False)
RECURSIVE sort_by_date_desc(_)
sort_by_date_desc(rows) ==
    IF rows = <<>> THEN <<>>
    ELSE insert_desc(sort_by_date_desc(SubSeq(rows, 1, Len(rows) - 1)),
                     rows[Len(rows)])

\* df.iloc[::step]
every_nth(rows, step) ==
    [j \in 1..((Len(rows) - 1) \div step + 1) |-> rows[(j - 1) * step + 1]]

\* The sorting and sampling of one industry's rows.
prepare(rows, step) ==
    LET sorted == sort_by_date_desc(rows)
    IN  IF step > 0 THEN every_nth(sorted, step) ELSE sorted

\* round(x, 2) if pd.notna(x) else None; the model's values are whole numbers.
rounded_or_none(x) == IF x = NA THEN None ELSE x

\* The dict main appends to results for one industry.
result_row(code, df) ==
    LET latest == df[1]
        pes == [k \in 1..Len(df) |-> df[k].pe]
        pbs == [k \in 1..Len(df) |-> df[k].pb]
    IN  [index_code |-> code,
         pe |-> rounded_or_none(latest.pe),
         pe_percentile |-> calculate_percentile_rank(pes, latest.pe),
         pb |-> rounded_or_none(latest.pb),
         pb_percentile |-> calculate_percentile_rank(pbs, latest.pb),
         sample_count |-> Len(df),
         latest_date |-> latest.trade_date]

\* Step 1: main calls get_industry_list, which calls the client.
GetIndustryList ==
    /\ mpc = "start"
    /\ BeginCall(DEFAULT_MAX_RETRIES)
    /\ mpc' = "list"
    /\ UNCHANGED <<level, interval, industry_df, idx, fetched, results,
                   output_file>>
    /\ UNCHANGED <<pctVars, runVars>>

\* index_basic is back: main returns without a list, or starts the loop.
ListDone ==
    /\ mpc = "list"
    /\ EndCall
    /\ LET df == get_industry_list(result, level)
       IN  IF no_data(df)
           THEN /\ mpc' = "done"
                /\ UNCHANGED <<industry_df, idx>>
           ELSE /\ industry_df' = df.rows
                /\ idx' = 1
                /\ mpc' = "loop"
    /\ \E gap \in Gaps : now' = now + gap
    /\ UNCHANGED <<level, interval, fetched, results, output_file>>
    /\ UNCHANGED <<pctVars, runVars>>

\* Step 2, one industry: main calls get_sw_daily_data, which calls the client.
FetchDaily ==
    /\ mpc = "loop"
    /\ idx <= Len(industry_df)
    /\ BeginCall(DEFAULT_MAX_RETRIES)
    /\ mpc' = "fetch"
    /\ UNCHANGED <<level, interval, industry_df, idx, fetched, results,
                   output_file>>
    /\ UNCHANGED <<pctVars, runVars>>

\* skip_industry ending the run at the first industry without data.
skip_industry_halts ==
    /\ results' = results
    /\ idx' = idx
    /\ mpc' = "done"

\* The continue of an industry without data.
skip_industry ==
    /\ results' = results
    /\ idx' = idx + 1
    /\ mpc' = "loop"

\* The rest of the loop body for an industry with data.
rank_industry(rows) ==
    /\ results' = Append(results,
                         result_row(industry_df[idx].ts_code,
                                    prepare(rows, interval)))
    /\ idx' = idx + 1
    /\ mpc' = "loop"

\* sw_daily is back for industry idx.
ProcessIndustry ==
    /\ mpc = "fetch"
    /\ EndCall
    /\ fetched' = Append(fetched, result)
    /\ IF no_data(result) THEN skip_industry ELSE rank_industry(result.rows)
    /\ \E gap \in Gaps : now' = now + gap
    /\ UNCHANGED <<level, interval, industry_df, output_file>>
    /\ UNCHANGED <<pctVars, runVars>>

\* A missing percentile sorts last (na_position='last').
pe_before(a, b) ==
    /\ a.pe_percentile # None
    /\ b.pe_percentile = None \/ a.pe_percentile < b.pe_percentile

RECURSIVE insert_by_pe(_, _)
insert_by_pe(sorted, r) ==
    IF sorted = <<>> THEN <<r>>
    ELSE IF pe_before(r, Head(sorted)) THEN <<r>> \o sorted
         ELSE <<Head(sorted)>> \o insert_by_pe(Tail(sorted), r)

\* results_df.sort_values('pe_percentile', ascending=True, na_position='last')
RECURSIVE sort_by_pe_percentile(_)
sort_by_pe_percentile(rows) ==
    IF rows = <<>> THEN <<>>
    ELSE insert_by_pe(sort_by_pe_percentile(SubSeq(rows, 1, Len(rows) - 1)),
                      rows[Len(rows)])

\* Step 3: nothing to report, or the sorted table is written to the CSV file.
Output ==
    /\ mpc = "loop"
    /\ idx > Len(industry_df)
    /\ IF results = <<>>
       THEN output_file' = output_file
       ELSE output_file' = sort_by_pe_percentile(results)
    /\ mpc' = "done"
    /\ UNCHANGED clientVars
    /\ UNCHANGED <<level, interval, industry_df, idx, fetched, results>>
    /\ UNCHANGED <<pctVars, runVars>>

----------------------------------------------------------------------------
\* The specifications

\* TushareAPI.__init__, and no call under way.
InitClient ==
    /\ now = StartTime
    /\ last_request_time = 0
    /\ total_requests = 0
    /\ cpc = "idle"
    /\ max_retries = 0
    /\ attempt = 0
    /\ err = ""
    /\ result = NoResult
    /\ started_at = 0
    /\ failed_at = 0
    /\ invocations = 0
    /\ succeeded = FALSE
    /\ entry = <<0, 0>>
    /\ successes = 0
    /\ failures = 0
    /\ calls = 0

\* The command lines the model runs main with.
RunArgs == {<<"L1", 0>>, <<"L2", 2>>}

InitMain ==
    /\ \E args \in RunArgs : level = args[1] /\ interval = args[2]
    /\ industry_df = <<>>
    /\ idx = 0
    /\ fetched = <<>>
    /\ results = <<>>
    /\ output_file = <<>>

\* A path of a result file: the level in its name, and whether this run of
\* the analysis or an earlier one wrote it; NoPath is run_analysis's None and
\* Pending stands for a run_analysis that has not returned.
CsvOf(lvl, run) == [level |-> lvl, run |-> run]
NoPath == [level |-> "", run |-> "none"]
Pending == [level |-> "", run |-> "pending"]

\* main run on its own: run_analysis is not in play.
InitNoRun ==
    /\ script_present = TRUE
    /\ old_files = {}
    /\ returned = Pending

InitNoPct ==
    /\ series = <<>>
    /\ value = NA
    /\ pct = None
    /\ ppc = "input"

\* One run of main.
Init ==
    /\ env = NominalEnv
    /\ InitClient
    /\ InitMain
    /\ mpc = "start"
    /\ InitNoPct
    /\ InitNoRun

Next ==
    \/ GetIndustryList
    \/ ListDone
    \/ FetchDaily
    \/ ProcessIndustry
    \/ Output
    \/ Throttle
    \/ ApiReturn
    \/ ApiRaise
    \/ Except
    \/ Exhausted

Spec == Init /\ [][Next]_vars

\* Any sequence of calls on one client.
InitCalls ==
    /\ env = LaggingEnv
    /\ InitClient
    /\ InitMain
    /\ mpc = "caller"
    /\ InitNoPct
    /\ InitNoRun

NextCalls ==
    \/ Call
    \/ Return
    \/ Throttle
    \/ ApiReturn
    \/ ApiRaise
    \/ Except
    \/ Exhausted

SpecCalls == InitCalls /\ [][NextCalls]_vars

\* The steps of a call under way.
CallStep == Throttle \/ ApiReturn \/ ApiRaise \/ Except \/ Exhausted

\* The single thread runs on while a call is under way, and api_func returns
\* or raises whenever it is invoked.
FairCalls == SpecCalls /\ WF_vars(CallStep)

\* One call of calculate_percentile_rank on any series and query value.
SeriesUpTo(n) == UNION {[1..k -> Entries] : k \in 0..n}

InitPct ==
    /\ env = NominalEnv
    /\ InitClient
    /\ InitMain
    /\ mpc = "start"
    /\ series \in SeriesUpTo(MaxLen)
    /\ value \in Entries
    /\ pct = None
    /\ ppc = "input"
    /\ InitNoRun

ComputePct ==
    /\ ppc = "input"
    /\ pct' = calculate_percentile_rank(series, value)
    /\ ppc' = "done"
    /\ UNCHANGED <<series, value>>
    /\ UNCHANGED <<clientVars, mainVars, runVars>>

NextPct == ComputePct

SpecPct == InitPct /\ [][NextPct]_vars

----------------------------------------------------------------------------
\* run_valuation.run_analysis: main run as a subprocess for one level

\* The output directories the model starts run_analysis with: none or empty,
\* one with an earlier L1 file, one with earlier L1 and L2 files.
OldDirs == {{}, {"L1"}, {"L1", "L2"}}

\* glob.glob(industry_pe_pb_sw_{level}_*.csv): the earlier file of the level
\* if there is one, and the file the subprocess wrote if it wrote one.
glob_level(lvl) ==
    (IF lvl \in old_files THEN {CsvOf(lvl, "earlier")} ELSE {})
        \cup (IF output_file # <<>> /\ level = lvl
              THEN {CsvOf(lvl, "this")}
              ELSE {})

\* os.path.getmtime: the file of this run is newer than an earlier one.
getmtime(f) == IF f.run = "this" THEN 2 ELSE 1

\* max(files, key=os.path.getmtime)
latest_of(files) ==
    CHOOSE f \in files : \A g \in files : getmtime(g) <= getmtime(f)

\* The lines after subprocess.run: None without a file, else the newest.
find_latest(lvl) ==
    IF glob_level(lvl) = {} THEN NoPath ELSE latest_of(glob_level(lvl))

\* Entry of run_analysis: None without the script, else the subprocess
\* starts main with --level level.
RunAnalysis ==
    /\ mpc = "run"
    /\ IF script_present
       THEN mpc' = "start" /\ returned' = returned
       ELSE mpc' = "returned" /\ returned' = NoPath
    /\ UNCHANGED <<level, interval, industry_df, idx, fetched, results,
                   output_file>>
    /\ UNCHANGED <<clientVars, pctVars, script_present, old_files>>

\* The subprocess ends with a non-zero exit status: an exception that main
\* does not catch, raised in main's own code before it writes the file.
Crash ==
    /\ returned = Pending
    /\ mpc \in {"start", "loop"}
    /\ cpc = "idle"
    /\ mpc' = "crashed"
    /\ UNCHANGED <<level, interval, industry_df, idx, fetched, results,
                   output_file>>
    /\ UNCHANGED <<clientVars, pctVars, runVars>>

\* except subprocess.CalledProcessError: return None
AnalysisFailed ==
    /\ mpc = "crashed"
    /\ returned' = NoPath
    /\ mpc' = "returned"
    /\ UNCHANGED <<level, interval, industry_df, idx, fetched, results,
                   output_file>>
    /\ UNCHANGED <<clientVars, pctVars, script_present, old_files>>

\* The subprocess ended with exit status 0: return the newest file of the
\* level, or None when there is none.
FindLatest ==
    /\ mpc = "done"
    /\ returned' = find_latest(level)
    /\ mpc' = "returned"
    /\ UNCHANGED <<level, interval, industry_df, idx, fetched, results,
                   output_file>>
    /\ UNCHANGED <<clientVars, pctVars, script_present, old_files>>

\* One call of run_analysis(level), on any of the output directories.
InitRun ==
    /\ env = NominalEnv
    /\ InitClient
    /\ InitMain
    /\ mpc = "run"
    /\ InitNoPct
    /\ script_present \in BOOLEAN
    /\ old_files \in OldDirs
    /\ returned = Pending

NextRun ==
    \/ RunAnalysis
    \/ Crash
    \/ AnalysisFailed
    \/ FindLatest
    \/ Next

SpecRun == InitRun /\ [][NextRun]_vars

----------------------------------------------------------------------------
\* Properties of calculate_percentile_rank (under SpecPct)

\* The entries of the series that are not missing, and the counts of the
\* mid-rank formula over them.
Defined == {k \in 1..Len(series) : series[k] # NA}
NDefined == Cardinality(Defined)
NBelow == Cardinality({k \in Defined : series[k] < value})
NEqual == Cardinality({k \in Defined : series[k] = value})

Abs(x) == IF x < 0 THEN -x ELSE x

\* p (hundredths of a percent) is num / den * 100 rounded to two decimals:
\* no hundredth is nearer to the exact quotient.
IsRounded(p, num, den) == 2 * Abs(p * den - num * 10000) <= den

\* C1: for a series with at least one defined entry and a defined query
\* value, the result is (count_below + 0.5 * count_equal) / n * 100 rounded
\* to two decimal places, n being the number of defined entries.
C1_MidRankRounded ==
    (ppc = "done" /\ value # NA /\ NDefined > 0) =>
        /\ pct # None
        /\ IsRounded(pct, 2 * NBelow + NEqual, 2 * NDefined)

\* The query ties with two entries of a series that has a missing entry and
\* a smaller entry: (1 + 0.5 * 2) / 3 * 100 = 66.67.
C1_Witness ==
    /\ ppc = "done"
    /\ series = <<1, NA, 2, 2>>
    /\ value = 2
    /\ pct = 6667

\* C2: the result is None exactly when the query value is missing or the
\* series has no defined entry.
C2_NoneIffNoData ==
    ppc = "done" => (pct = None <=> (value = NA \/ NDefined = 0))

\* A defined query value against a series of missing entries only.
C2_Witness ==
    /\ ppc = "done"
    /\ value # NA
    /\ Len(series) = 2
    /\ NDefined = 0
    /\ pct = None

\* C3: a defined result lies in [0, 100].
C3_WithinRange ==
    (ppc = "done" /\ pct # None) => (0 <= pct /\ pct <= 10000)

\* A query value above every entry, not in the series: 100.0.
C3_Witness ==
    /\ ppc = "done"
    /\ NDefined >= 2
    /\ NEqual = 0
    /\ NBelow = NDefined
    /\ pct = 10000

\* The case of C8: every entry defined, the query value in the series once.
OnceNoTies == ppc = "done" /\ value # NA /\ NDefined = Len(series) /\ NEqual = 1

\* C8 as stated: the result equals (count_below + 0.5) / n * 100 itself.
C8_ExactMidRank ==
    OnceNoTies => pct * 2 * NDefined = (2 * NBelow + 1) * 10000

\* C8 as amended: the result is (count_below + 0.5) / n * 100 rounded to two
\* decimal places; 0.5 / n * 100 rounded for the strict minimum and
\* (n - 1 + 0.5) / n * 100 rounded for the strict maximum.
C8_RoundedMidRank ==
    OnceNoTies =>
        /\ pct # None
        /\ IsRounded(pct, 2 * NBelow + 1, 2 * NDefined)
        /\ (\A k \in Defined : series[k] >= value) =>
               IsRounded(pct, 1, 2 * NDefined)
        /\ (\A k \in Defined : series[k] <= value) =>
               IsRounded(pct, 2 * NDefined - 1, 2 * NDefined)

\* The strict maximum of three entries: 2.5 / 3 * 100 = 83.33.
C8_Witness ==
    /\ OnceNoTies
    /\ Len(series) = 3
    /\ \A k \in Defined : series[k] <= value
    /\ pct = 8333

----------------------------------------------------------------------------
\* Properties of call_with_retry (under SpecCalls and FairCalls)

\* The positions call_with_retry passes through when nothing escapes it.
CallPositions == {"idle", "head", "invoke", "except", "ret"}

\* C4: no exception of api_func leaves call_with_retry; a call in which no
\* attempt succeeded returns None, after max_retries failed attempts.
C4_FailuresReturnNone ==
    /\ cpc \in CallPositions
    /\ (cpc = "ret" /\ ~succeeded) =>
           /\ result = NoResult
           /\ invocations = max_retries
           /\ attempt = max_retries

\* A call whose attempts all failed, the last with an error that is no rate
\* limit, has returned None.
C4_Witness ==
    /\ cpc = "ret"
    /\ ~succeeded
    /\ max_retries = MaxRetries
    /\ err = "timeout"
    /\ result = NoResult

\* The invocations of api_func the current call has made are the attempts
\* used up, plus the one under way or the one that succeeded.
AttemptsCounted ==
    /\ invocations <= max_retries
    /\ attempt <= max_retries
    /\ invocations =
           attempt + (IF cpc \in {"invoke", "except"} \/ succeeded THEN 1 ELSE 0)

\* C5: every iteration uses up one of the max_retries attempts whatever the
\* error, api_func is invoked at most max_retries times in a call, and every
\* call returns.
C5_AttemptsBoundedAndCallReturns ==
    /\ []AttemptsCounted
    /\ (cpc = "head") ~> (cpc = "ret")

\* A call that used up all its attempts, the last failing with a rate limit.
C5_Witness ==
    /\ cpc = "ret"
    /\ ~succeeded
    /\ invocations = MaxRetries
    /\ err = "too_frequent"

\* C6: api_func is never entered less than REQUEST_INTERVAL after the
\* completion time recorded for the last successful call.
C6_IntervalKept ==
    cpc = "invoke" => started_at - last_request_time >= REQUEST_INTERVAL

\* The first attempt of a call made right after a successful call enters
\* api_func exactly REQUEST_INTERVAL after that call completed.
C6_Witness ==
    /\ cpc = "invoke"
    /\ successes >= 1
    /\ attempt = 0
    /\ started_at = last_request_time + REQUEST_INTERVAL

\* C7: a successful attempt records its completion time, adds one to the
\* counter, returns the result and ends the call; the counter is the number
\* of invocations of api_func that returned, at most one per call.
C7_SuccessBookkeeping ==
    /\ succeeded => cpc = "ret"
    /\ (cpc = "ret" /\ succeeded) =>
           /\ last_request_time = now
           /\ total_requests = entry[2] + 1
           /\ ~result.none
           /\ invocations = attempt + 1
    /\ total_requests = successes
    /\ successes <= calls

\* The second successful call, which took api_func some time and came after
\* a failed attempt.
C7_Witness ==
    /\ cpc = "ret"
    /\ succeeded
    /\ attempt >= 1
    /\ total_requests = 2
    /\ now > started_at

\* The pause C10 states for an error message.
PauseAfter(msg) ==
    IF msg \in {"minute_quota", "too_frequent"} THEN RATE_LIMIT_WAIT
    ELSE RETRY_DELAY

\* C10: the attempt after a failed one starts once the pause for that
\* failure has passed, the cooldown for a rate limit and the short delay for
\* any other error, and no later than the pause and its overrun.
C10_PauseBetweenAttempts ==
    (cpc = "invoke" /\ attempt > 0) =>
        /\ started_at - failed_at >= PauseAfter(err)
        /\ started_at - failed_at <= PauseAfter(err) + env.lag

\* An attempt that starts exactly the cooldown after a rate limit.
C10_Witness ==
    /\ cpc = "invoke"
    /\ attempt > 0
    /\ err = "minute_quota"
    /\ started_at - failed_at = RATE_LIMIT_WAIT

\* C12: an attempt that raises changes neither last_request_time nor
\* total_requests: until an attempt succeeds both are what they were when the
\* call was entered, and so they are when the call returns None.
C12_FailuresLeaveBookkeeping ==
    (cpc \in {"head", "invoke", "except", "ret"} /\ ~succeeded) =>
        <<last_request_time, total_requests>> = entry

\* A call made after a successful one has failed every attempt and returned
\* None.
C12_Witness ==
    /\ cpc = "ret"
    /\ ~succeeded
    /\ result = NoResult
    /\ invocations = MaxRetries
    /\ entry[2] = 1
    /\ now > entry[1] + RETRY_DELAY

----------------------------------------------------------------------------
\* Properties of main (under Spec)

\* The industries whose fetch returned rows, in the order of the list.
WithData ==
    SelectSeq([k \in 1..Len(fetched) |-> k],
              LAMBDA k : ~fetched[k].none /\ Len(fetched[k].rows) > 0)

\* C9: an industry whose fetch gives None or no row adds no row and does
\* not end the run: the results hold one row for exactly the industries
\* fetched with data, and a finished run fetched every industry.
C9_FailuresAreSkipped ==
    industry_df # <<>> =>
        /\ [j \in 1..Len(results) |-> results[j].index_code]
               = [j \in 1..Len(WithData) |-> industry_df[WithData[j]].ts_code]
        /\ mpc = "done" => Len(fetched) = Len(industry_df)

\* The first industry's fetch ran out of attempts; the second was fetched
\* and is the only row.
C9_Witness ==
    /\ mpc = "done"
    /\ Len(industry_df) = 2
    /\ Len(fetched) = 2
    /\ fetched[1].none
    /\ Len(results) = 1
    /\ results[1].index_code = industry_df[2].ts_code
    /\ output_file # <<>>

----------------------------------------------------------------------------
\* Properties of run_analysis (under SpecRun)

\* C11: run_analysis returns the path of the CSV file this run of the
\* analysis wrote for the level, and None when the run wrote none; it never
\* returns the file of an earlier run.
C11_ReturnsOwnFile ==
    mpc = "returned" =>
        IF output_file # <<>> THEN returned = CsvOf(level, "this")
        ELSE returned = NoPath

====
